---- MODULE Spec2Model ----
(***************************************************************************)
(* A model of iMessage-extractor.py: the export pipeline that reads the    *)
(* chat store, resolves and copies attachments and writes the transcript.  *)
(* Python binds the LAST definition of a repeated method, so the model     *)
(* follows connect_to_database (184-225), copy_attachment (586-618),       *)
(* export_conversations (858-988) and print_summary (990-1034).            *)
(* Strings that the code parses (paths, names) are sequences of            *)
(* one-character strings; NULL and the empty string are both << >>.        *)
(***************************************************************************)
EXTENDS Integers, Sequences, FiniteSets, TLC

(***************************************************************************)
(* Bounds of the model.                                                    *)
(***************************************************************************)
MaxRuns == 2
MaxFaults == 1
MaxMsgs == 2
MaxAtts == 2
MaxCore == 3

(***************************************************************************)
(* Program constants.                                                      *)
(***************************************************************************)
MaxNameLen == 100
SEARCH_ALTERNATIVE_LOCATIONS == TRUE
NanosPerSecond == 1000000000

(***************************************************************************)
(* String helpers (Python str methods and os.path functions).              *)
(***************************************************************************)
NULL == << >>

S_Unknown == <<"U","n","k","n","o","w","n">>
S_UnknownContact == <<"U","n","k","n","o","w","n"," ","C","o","n","t","a","c","t">>
S_unknown == <<"u","n","k","n","o","w","n">>
S_unknown_attachment == <<"u","n","k","n","o","w","n","_","a","t","t","a","c","h","m","e","n","t">>
S_You == <<"Y","o","u">>

OUTPUT_DIR == <<"/","o">>
HOME == <<"/","h">>
S_tilde_L == <<"~","/","L">>
S_attachments == <<"a","t","t","a","c","h","m","e","n","t","s">>
S_messages_txt == <<"m","e","s","s","a","g","e","s",".","t","x","t">>
S_export_debug_log == <<"e","x","p","o","r","t","_","d","e","b","u","g",".","l","o","g">>
S_failed_attachments_txt == <<"f","a","i","l","e","d","_","a","t","t","a","c","h","m","e","n","t","s",".","t","x","t">>

\* os.path.join(a, b) for a relative b
PathJoin(a, b) == IF b /= << >> /\ b[1] = "/" THEN b
                  ELSE IF a /= << >> /\ a[Len(a)] = "/" THEN a \o b
                  ELSE a \o <<"/">> \o b

RECURSIVE LastSlash(_, _)
LastSlash(p, i) == IF i = 0 THEN 0
                   ELSE IF p[i] = "/" THEN i
                   ELSE LastSlash(p, i - 1)

\* os.path.basename: what follows the last "/"
basename(p) == SubSeq(p, LastSlash(p, Len(p)) + 1, Len(p))

\* os.path.expanduser for "~" and "~/..."
expanduser(p) == IF p /= << >> /\ p[1] = "~" /\ (Len(p) = 1 \/ p[2] = "/")
                 THEN HOME \o Tail(p)
                 ELSE p

\* str.lower on the letters the model uses
LowerChar(c) == CASE c = "A" -> "a"
                  [] c = "B" -> "b"
                  [] c = "P" -> "p"
                  [] c = "L" -> "l"
                  [] c = "N" -> "n"
                  [] c = "O" -> "o"
                  [] c = "U" -> "u"
                  [] c = "Y" -> "y"
                  [] OTHER -> c
lower(s) == [i \in 1..Len(s) |-> LowerChar(s[i])]

endswith(s, suf) == /\ Len(suf) <= Len(s)
                    /\ SubSeq(s, Len(s) - Len(suf) + 1, Len(s)) = suf

problematic_chars == {":", "/", "\\", "<", ">", "\"", "|", "?", "*"}
strip_chars == {" ", "."}

RECURSIVE lstrip(_)
lstrip(s) == IF s /= << >> /\ s[1] \in strip_chars THEN lstrip(Tail(s)) ELSE s

RECURSIVE rstrip(_)
rstrip(s) == IF s /= << >> /\ s[Len(s)] \in strip_chars
             THEN rstrip(SubSeq(s, 1, Len(s) - 1))
             ELSE s

\* sanitize_filename without the length limit
sanitize_filename_no_limit(name) ==
    IF name = << >> THEN S_Unknown
    ELSE LET replaced == [i \in 1..Len(name) |->
                            IF name[i] \in problematic_chars THEN "_" ELSE name[i]]
             stripped == rstrip(lstrip(replaced))
         IN IF stripped /= << >> THEN stripped ELSE S_Unknown

sanitize_filename(name) ==
    IF name = << >> THEN S_Unknown
    ELSE LET replaced == [i \in 1..Len(name) |->
                            IF name[i] \in problematic_chars THEN "_" ELSE name[i]]
             stripped == rstrip(lstrip(replaced))
             limited  == IF Len(stripped) > MaxNameLen
                         THEN SubSeq(stripped, 1, MaxNameLen)
                         ELSE stripped
         IN IF limited /= << >> THEN limited ELSE S_Unknown

plugin_extensions ==
    { <<".","p","l","u","g","i","n","P","a","y","l","o","a","d","A","t","t","a","c","h","m","e","n","t">>,
      <<".","b","a","l","l","o","o","n">>,
      <<".","a","p","p">>,
      <<".","h","a","n","d","w","r","i","t","i","n","g">>,
      <<".","d","i","g","i","t","a","l","t","o","u","c","h","d","a","t","a">> }

is_plugin_attachment(filename) ==
    /\ filename /= << >>
    /\ \E ext \in plugin_extensions : endswith(lower(filename), lower(ext))

format_timestamp(timestamp) ==
    IF timestamp /= 0
    THEN [time |-> "secs", secs |-> timestamp \div NanosPerSecond]
    ELSE [time |-> "Unknown Time", secs |-> 0]

\* str.strip() is non-empty
NonBlank(text) == \E i \in 1..Len(text) : text[i] /= " "


(***************************************************************************)
(* The chat store (chat.db) and the attachment files on disk.              *)
(***************************************************************************)
P_AX == <<"/","a","/","x">>
P_BX == <<"/","b","/","x">>
P_MX == <<"/","m","/","x">>
P_PL == <<"/","m","/","y",".","A","p","p">>
P_X  == <<"x">>

\* ATTACHMENTS_PATH, the root of the attachment store, and a file "x" in it
ATTACHMENTS_PATH == expanduser(S_tilde_L)
P_LX == PathJoin(ATTACHMENTS_PATH, <<"x">>)

\* attachment rows: (filename, transfer_name)
AttPool ==
    { [filename |-> P_AX, transfer_name |-> <<"x">>],
      [filename |-> P_BX, transfer_name |-> <<"x">>],
      [filename |-> P_MX, transfer_name |-> <<"x">>],
      [filename |-> P_PL, transfer_name |-> NULL],
      [filename |-> NULL, transfer_name |-> <<"t">>],
      [filename |-> P_X,  transfer_name |-> NULL] }

\* the files of the attachment store that exist when the export starts
SourceFiles == { P_AX, P_BX, P_X, P_LX }

\* message rows without their attachments: (date, text, is_from_me, sender_handle)
MsgHeadIds == 1..3
MsgHead(k) ==
    CASE k = 1 -> [date |-> 2 * NanosPerSecond, text |-> <<"h","i">>,
                   is_from_me |-> TRUE, sender_handle |-> NULL]
      [] k = 2 -> [date |-> NanosPerSecond, text |-> <<"h","e","y">>,
                   is_from_me |-> FALSE, sender_handle |-> <<"+","1">>]
      [] OTHER -> [date |-> 0, text |-> <<" ">>,
                   is_from_me |-> FALSE, sender_handle |-> NULL]

\* chat rows: (chat_identifier, display_name, room_name, handles), by chat_identifier
ChatHeadIds == 1..3
ChatHead(k) ==
    CASE k = 1 -> [chat_identifier |-> <<"+","1">>, display_name |-> <<"A","l">>,
                   room_name |-> NULL, handles |-> { <<"+","1">> }]
      [] k = 2 -> [chat_identifier |-> <<"c",":","2">>, display_name |-> NULL,
                   room_name |-> NULL, handles |-> { <<"+","1">>, <<"b","@">> }]
      [] OTHER -> [chat_identifier |-> <<"g">>, display_name |-> NULL,
                   room_name |-> <<"A","l"," ","(","+","1",")">>, handles |-> {}]

SeqsUpTo(S, n) == UNION { [1..k -> S] : k \in 0..n }

RECURSIVE SumLen(_)
SumLen(ss) == IF ss = << >> THEN 0 ELSE Len(Head(ss)) + SumLen(Tail(ss))

\* the attachment lists of the n messages of one chat: at most MaxAtts rows in all
AttLayouts(n) == { l \in [1..n -> SeqsUpTo(AttPool, MaxAtts)] : SumLen(l) <= MaxAtts }

\* the message rows of one chat, in ROWID order; message_id is the ROWID
Body(first, atts) ==
    [i \in 1..Len(atts) |->
        LET h == MsgHead(((first + i - 2) % Cardinality(MsgHeadIds)) + 1)
        IN [date |-> h.date, text |-> h.text, is_from_me |-> h.is_from_me,
            sender_handle |-> h.sender_handle, message_id |-> i,
            attachments |-> atts[i]]]

\* a conversation of the store; message ROWIDs are unique over the store
Chat(k, body) ==
    [head |-> ChatHead(k),
     messages |-> [i \in 1..Len(body) |-> [body[i] EXCEPT !.message_id = <<k, i>>]]]

\* one conversation, every layout of at most MaxAtts attachments over at most
\* MaxMsgs messages
StoresOneChat ==
    { << Chat(1, Body(2, l)) >> : l \in UNION { AttLayouts(n) : n \in 0..MaxMsgs } }

\* up to two conversations out of three, each empty, text only, or carrying two
\* attachments of the same name
SmallBodies ==
    { << >>,
      Body(1, << << >> >>),
      Body(2, << << [filename |-> P_AX, transfer_name |-> <<"x">>],
                    [filename |-> P_MX, transfer_name |-> <<"x">>] >> >>) }

\* the rows come back ORDER BY chat_identifier: conversation j before k when j < k
StoresManyChats ==
    { << >> }
    \cup { << Chat(j, b) >> : j \in ChatHeadIds, b \in SmallBodies }
    \cup UNION { UNION { { << Chat(j, b), Chat(k, c) >> : b \in SmallBodies, c \in SmallBodies } :
                           k \in { n \in ChatHeadIds : n > j } } : j \in ChatHeadIds }

Stores == StoresOneChat \cup StoresManyChats

(***************************************************************************)
(* State.                                                                  *)
(***************************************************************************)
VARIABLES
    store,            \* chat.db: the conversations with their messages and attachments
    files,            \* the filesystem: path -> content
    dirs,             \* the filesystem: the directories that exist
    RESUME_MODE,      \* module constant RESUME_MODE
    DRY_RUN,          \* module constant DRY_RUN of the current run
    run,              \* the number of the current process run
    pc,               \* position of the current run
    conn,             \* the sqlite3 connection: "none", "open" or "closed"
    chats,            \* export_conversations: chats (in dict order)
    ci,               \* export_conversations: current_chat
    messages,         \* export_conversations: messages of the current chat
    mi,               \* export_conversations: index of the current message
    attachments,      \* export_conversations: attachments of the current message
    ai,               \* export_conversations: index of the current attachment
    contact_folder,   \* export_conversations: contact_folder
    stats,            \* self.stats
    messages_content, \* export_conversations: messages_content
    result,           \* what export_conversations returned: "none", "True", "False"
    exit_code,        \* what main returned, -1 before
    faults,           \* per-item failures injected so far
    outcomes,         \* how each attachment of the current run was resolved
    ghost,            \* bookkeeping of the current run
    start,            \* the filesystem when the current run started
    hist,             \* the finished runs
    san               \* a call of sanitize_filename: its argument and what it returned

vars == << store, files, dirs, RESUME_MODE, DRY_RUN, run, pc, conn, chats, ci,
           messages, mi, attachments, ai, contact_folder, stats, messages_content,
           result, exit_code, faults, outcomes, ghost, start, hist, san >>

\* iMessageExporter.__init__
InitStats == [conversations |-> 0, messages |-> 0, attachments_found |-> 0,
              attachments_copied |-> 0, attachments_skipped |-> 0,
              attachments_failed |-> 0, contacts_processed |-> 0]

InitGhost == [opens |-> 0, closes |-> 0, query_unopened |-> FALSE, raised |-> "none",
              item_failed |-> FALSE, fetched |-> 0, connect_failed |-> FALSE,
              listed |-> -1, wrote_transcript |-> 0, killed |-> FALSE]

\* no call of sanitize_filename under way
SanIdle == [pc |-> "idle", name |-> << >>, once |-> << >>, twice |-> << >>]

Data(path) == [kind |-> "data", src |-> path, lines |-> << >>]

Exists(fs, ds, path) == path \in DOMAIN fs \/ path \in ds

WriteFile(fs, path, content) ==
    [q \in DOMAIN fs \cup {path} |-> IF q = path THEN content ELSE fs[q]]

LogPath == PathJoin(OUTPUT_DIR, S_export_debug_log)
TranscriptPath == PathJoin(OUTPUT_DIR, S_messages_txt)
ReportPath == PathJoin(OUTPUT_DIR, S_failed_attachments_txt)
AttachmentsDir == PathJoin(OUTPUT_DIR, S_attachments)

Init ==
    /\ store \in Stores
    /\ files = [q \in SourceFiles |-> Data(q)]
    /\ dirs = {}
    /\ RESUME_MODE \in BOOLEAN
    /\ DRY_RUN \in BOOLEAN
    /\ run = 1
    /\ pc = "main"
    /\ conn = "none"
    /\ chats = << >>
    /\ ci = 0
    /\ messages = << >>
    /\ mi = 0
    /\ attachments = << >>
    /\ ai = 0
    /\ contact_folder = << >>
    /\ stats = InitStats
    /\ messages_content = << >>
    /\ result = "none"
    /\ exit_code = -1
    /\ faults = 0
    /\ outcomes = << >>
    /\ ghost = InitGhost
    /\ start = [files |-> files, dirs |-> dirs]
    /\ hist = << >>
    /\ san = SanIdle

(***************************************************************************)
(* Database Reader.                                                        *)
(***************************************************************************)
RECURSIVE InsertByDate(_, _)
InsertByDate(row, sorted) ==
    IF sorted = << >> THEN << row >>
    ELSE IF row.date < Head(sorted).date THEN << row >> \o sorted
    ELSE << Head(sorted) >> \o InsertByDate(row, Tail(sorted))

RECURSIVE OrderByDate(_)
OrderByDate(rows) ==
    IF rows = << >> THEN << >>
    ELSE InsertByDate(rows[Len(rows)], OrderByDate(SubSeq(rows, 1, Len(rows) - 1)))

\* get_messages_for_chat: the rows of the chat, ORDER BY m.date ASC
get_messages_for_chat(chat_identifier) ==
    LET idx == { i \in 1..Len(store) : store[i].head.chat_identifier = chat_identifier }
    IN IF idx = {} THEN << >>
       ELSE OrderByDate(store[CHOOSE i \in idx : TRUE].messages)

\* get_attachments_for_message: the attachment rows joined to message_id
get_attachments_for_message(message_id) ==
    LET hits == { m \in UNION { { store[i].messages[j] : j \in 1..Len(store[i].messages) } :
                                i \in 1..Len(store) } : m.message_id = message_id }
    IN IF hits = {} THEN << >> ELSE (CHOOSE m \in hits : TRUE).attachments

\* get_contacts_and_chats: the rows grouped by chat_identifier, in row order; the
\* handles are a set
get_contacts_and_chats ==
    [i \in 1..Len(store) |->
        [chat_identifier |-> store[i].head.chat_identifier,
         display_name |-> IF store[i].head.display_name /= NULL
                          THEN store[i].head.display_name
                          ELSE store[i].head.room_name,
         handles |-> store[i].head.handles]]

(***************************************************************************)
(* Attachment Resolver.                                                    *)
(***************************************************************************)
\* copy_attachment: the destination filename of an attachment with a filename
dest_filename_of(attachment_info) ==
    IF basename(attachment_info.filename) /= << >>
    THEN basename(attachment_info.filename)
    ELSE IF attachment_info.transfer_name /= NULL
         THEN attachment_info.transfer_name
         ELSE S_unknown_attachment

\* copy_attachment with the source checked before the resume test
copy_attachment_source_first(attachment_info, destination_folder, fs, ds, io) ==
    LET filename      == attachment_info.filename
        source_path   == expanduser(filename)
        dest_filename == dest_filename_of(attachment_info)
        dest_path     == PathJoin(destination_folder, dest_filename)
    IN IF filename = NULL
       THEN [success |-> FALSE, result |-> <<"No filename provided">>, files |-> fs,
             skipped |-> 0, outcome |-> "Failed", dest |-> << >>, copied |-> FALSE]
       ELSE IF ~Exists(fs, ds, source_path)
       THEN [success |-> FALSE, result |-> <<"Source file not found">>, files |-> fs,
             skipped |-> 0, outcome |-> "Failed", dest |-> dest_path, copied |-> FALSE]
       ELSE IF RESUME_MODE /\ Exists(fs, ds, dest_path)
       THEN [success |-> TRUE, result |-> dest_filename, files |-> fs,
             skipped |-> 1, outcome |-> "SkippedExisting", dest |-> dest_path,
             copied |-> FALSE]
       ELSE IF DRY_RUN
       THEN [success |-> TRUE, result |-> dest_filename, files |-> fs,
             skipped |-> 0, outcome |-> "Copied", dest |-> dest_path, copied |-> FALSE]
       ELSE IF io = "ok" /\ source_path \in DOMAIN fs
       THEN [success |-> TRUE, result |-> dest_filename,
             files |-> WriteFile(fs, dest_path, fs[source_path]),
             skipped |-> 0, outcome |-> "Copied", dest |-> dest_path, copied |-> TRUE]
       ELSE [success |-> FALSE, result |-> <<"Copy failed">>, files |-> fs,
             skipped |-> 0, outcome |-> "Failed", dest |-> dest_path, copied |-> FALSE]

\* copy_attachment; io is what shutil.copy2 does: "ok", "error" (OSError before
\* the destination is opened) or "torn" (OSError after part of it was written)
copy_attachment(attachment_info, destination_folder, fs, ds, io) ==
    LET filename      == attachment_info.filename
        source_path   == expanduser(filename)
        dest_filename == dest_filename_of(attachment_info)
        dest_path     == PathJoin(destination_folder, dest_filename)
    IN IF filename = NULL
       THEN [success |-> FALSE, result |-> <<"No filename provided">>, files |-> fs,
             skipped |-> 0, outcome |-> "Failed", dest |-> << >>, copied |-> FALSE]
       ELSE IF RESUME_MODE /\ Exists(fs, ds, dest_path)
       THEN [success |-> TRUE, result |-> dest_filename, files |-> fs,
             skipped |-> 1, outcome |-> "SkippedExisting", dest |-> dest_path,
             copied |-> FALSE]
       ELSE IF ~Exists(fs, ds, source_path)
       THEN [success |-> FALSE, result |-> <<"Source file not found">>, files |-> fs,
             skipped |-> 0, outcome |-> "Failed", dest |-> dest_path, copied |-> FALSE]
       ELSE IF DRY_RUN
       THEN [success |-> TRUE, result |-> dest_filename, files |-> fs,
             skipped |-> 0, outcome |-> "Copied", dest |-> dest_path, copied |-> FALSE]
       ELSE IF io = "ok" /\ source_path \in DOMAIN fs
       THEN [success |-> TRUE, result |-> dest_filename,
             files |-> WriteFile(fs, dest_path, fs[source_path]),
             skipped |-> 0, outcome |-> "Copied", dest |-> dest_path, copied |-> TRUE]
       ELSE IF io = "torn" /\ source_path \in DOMAIN fs
       THEN [success |-> FALSE, result |-> <<"Copy failed">>,
             files |-> WriteFile(fs, dest_path,
                                 [kind |-> "partial", src |-> source_path, lines |-> << >>]),
             skipped |-> 0, outcome |-> "Failed", dest |-> dest_path, copied |-> FALSE]
       ELSE [success |-> FALSE, result |-> <<"Copy failed">>, files |-> fs,
             skipped |-> 0, outcome |-> "Failed", dest |-> dest_path, copied |-> FALSE]

\* whether copy_attachment reaches shutil.copy2 for this attachment
ReachesCopy(attachment_info, destination_folder, fs, ds) ==
    copy_attachment(attachment_info, destination_folder, fs, ds, "ok").copied

(***************************************************************************)
(* Conversation folder and header.                                         *)
(***************************************************************************)
S_open == <<" ","(">>
S_close == <<")">>
S_header_pre == <<"=","=","="," ","C","o","n","v","e","r","s","a","t","i","o","n"," ","w","i","t","h"," ">>
S_header_post == <<" ","=","=","=">>

\* list(chat_info['handles']) with first as its element 0
HandlesFirst(chat_info) ==
    IF chat_info.handles = {} THEN { NULL } ELSE chat_info.handles

\* create_contact_folder: the folder path
contact_folder_path(chat_info, first) ==
    LET display_name == chat_info.display_name
        folder_name ==
            IF display_name /= NULL
            THEN IF chat_info.handles /= {}
                 THEN display_name \o S_open \o first \o S_close
                 ELSE display_name
            ELSE IF chat_info.handles /= {} THEN first
            ELSE IF chat_info.chat_identifier /= NULL THEN chat_info.chat_identifier
            ELSE S_UnknownContact
    IN PathJoin(AttachmentsDir, sanitize_filename(folder_name))

\* create_contact_folder with the DRY_RUN guard forgotten
create_contact_folder_dirs_unguarded(ds, folder) ==
    ds \cup { OUTPUT_DIR, AttachmentsDir, folder }

\* create_contact_folder: os.makedirs(contact_folder, exist_ok=True) unless DRY_RUN
create_contact_folder_dirs(ds, folder) ==
    IF ~DRY_RUN THEN ds \cup { OUTPUT_DIR, AttachmentsDir, folder } ELSE ds

\* export_conversations: the header of a conversation
header_text(chat_info, first) ==
    LET display_name == chat_info.display_name
    IN S_header_pre \o
       (IF display_name /= NULL /\ chat_info.handles /= {}
        THEN display_name \o S_open \o first \o S_close
        ELSE IF display_name /= NULL THEN display_name
        ELSE IF chat_info.handles /= {} THEN first
        ELSE chat_info.chat_identifier)
       \o S_header_post

\* export_conversations: the sender label of a message
sender_label(chat_info, msg) ==
    IF msg.is_from_me THEN S_You
    ELSE IF chat_info.display_name /= NULL THEN chat_info.display_name
    ELSE IF msg.sender_handle /= NULL THEN msg.sender_handle
    ELSE S_Unknown

Line(kind, ts, sender, text, chat, mid) ==
    [kind |-> kind, ts |-> ts, sender |-> sender, text |-> text, chat |-> chat, mid |-> mid]

NoTime == [time |-> "", secs |-> 0]

LogLine == Line("log", NoTime, << >>, << >>, 0, << >>)

\* the open(..., 'w') + '\n'.join(messages_content) of export_conversations
write_transcript(fs, content) ==
    WriteFile(fs, TranscriptPath, [kind |-> "transcript", src |-> << >>, lines |-> content])

\* the keys of self.stats that print_summary reads before it writes the report
SummaryKeys == { "earliest_message", "latest_message", "contacts_processed",
                 "conversations", "messages", "attachments_found",
                 "attachments_copied", "plugin_attachments_skipped",
                 "attachments_found_alternative", "attachments_skipped",
                 "attachments_failed", "failed_files" }

\* print_summary raises KeyError when self.stats lacks a key it reads
print_summary_raises(st) == ~(SummaryKeys \subseteq DOMAIN st)

\* print_summary: the failure report, written when failed_files is non-empty
print_summary_files(st, fs) ==
    IF print_summary_raises(st) THEN fs
    ELSE IF st.failed_files /= << >> /\ ~DRY_RUN
    THEN WriteFile(fs, ReportPath,
                   [kind |-> "report", src |-> << >>, lines |-> st.failed_files])
    ELSE fs

\* export_conversations line 952: whether a successful attachment is counted as copied
counts_as_copied(res, atts, st) ==
    res \notin { atts[k].filename : k \in { n \in 1..Len(atts) : st.attachments_skipped > 0 } }

Inc(st, key) == [st EXCEPT ![key] = @ + 1]

FinishedRun(killed) ==
    [dry |-> DRY_RUN, killed |-> killed,
     exit_code |-> IF killed THEN -1 ELSE IF result = "True" THEN 0 ELSE 1,
     stats |-> IF killed THEN InitStats ELSE stats,
     outcomes |-> IF killed THEN << >> ELSE outcomes,
     ghost |-> IF killed THEN [InitGhost EXCEPT !.killed = TRUE] ELSE ghost]

(***************************************************************************)
(* The run: main, export_conversations, and the process being killed.      *)
(***************************************************************************)
\* main up to exporter.export_conversations(): setup_logging creates the output
\* directory and opens export_debug.log in append mode
Main ==
    /\ pc = "main"
    /\ dirs' = dirs \cup { OUTPUT_DIR }
    /\ files' = WriteFile(files, LogPath,
                   [kind |-> "log", src |-> << >>,
                    lines |-> (IF LogPath \in DOMAIN files THEN files[LogPath].lines
                               ELSE << >>) \o << LogLine >>])
    /\ pc' = "connect"
    /\ UNCHANGED << san, store, RESUME_MODE, DRY_RUN, run, conn, chats, ci, messages, mi,
                    attachments, ai, contact_folder, stats, messages_content, result,
                    exit_code, faults, outcomes, ghost, start, hist >>

\* connect_to_database and the "if not conn: return False" of export_conversations
ConnectToDatabase ==
    /\ pc = "connect"
    /\ \/ /\ conn' = "open"
          /\ ghost' = [ghost EXCEPT !.opens = @ + 1]
          /\ pc' = "list"
          /\ UNCHANGED result
       \/ /\ ghost' = [ghost EXCEPT !.connect_failed = TRUE]
          /\ result' = "False"
          /\ pc' = "return"
          /\ UNCHANGED conn
    /\ UNCHANGED << san, store, files, dirs, RESUME_MODE, DRY_RUN, run, chats, ci, messages,
                    mi, attachments, ai, contact_folder, stats, messages_content,
                    exit_code, faults, outcomes, start, hist >>

\* a return that skips the finally clause
Return_without_close(value, g) ==
    /\ result' = value
    /\ pc' = "return"
    /\ ghost' = g
    /\ UNCHANGED conn

\* a return out of the try block of export_conversations: the finally clause
\* closes the connection
Return(value, g) ==
    /\ result' = value
    /\ conn' = "closed"
    /\ ghost' = [g EXCEPT !.closes = @ + 1]
    /\ pc' = "return"

Queried(g) == [g EXCEPT !.query_unopened = @ \/ conn /= "open"]

\* get_contacts_and_chats, the empty check and the makedirs of the output
ListChats ==
    /\ pc = "list"
    /\ \/ \* the COUNT query, outside the try of get_contacts_and_chats, raises
          /\ Return("False", [Queried(ghost) EXCEPT !.raised = "sqlite3.Error"])
          /\ UNCHANGED << chats, dirs, messages_content, ci >>
       \/ \* the SELECT raises sqlite3.Error: {} is returned
          /\ Return("False", [Queried(ghost) EXCEPT !.listed = 0])
          /\ UNCHANGED << chats, dirs, messages_content, ci >>
       \/ /\ chats' = get_contacts_and_chats
          /\ IF chats' = << >>
             THEN /\ Return("False", [Queried(ghost) EXCEPT !.listed = 0])
                  /\ UNCHANGED << dirs, messages_content, ci >>
             ELSE /\ dirs' = IF ~DRY_RUN THEN dirs \cup { OUTPUT_DIR, AttachmentsDir }
                             ELSE dirs
                  /\ messages_content' = << >>
                  /\ ci' = 0
                  /\ ghost' = [Queried(ghost) EXCEPT !.listed = Len(chats')]
                  /\ pc' = "chat"
                  /\ UNCHANGED << result, conn >>
    /\ UNCHANGED << san, store, files, RESUME_MODE, DRY_RUN, run, messages, mi, attachments,
                    ai, contact_folder, stats, exit_code, faults, outcomes, start, hist >>

\* the chat loop with get_messages_for_chat letting sqlite3.Error through: the
\* error unwinds to the except clause of export_conversations
NextChat_query_raises ==
    /\ pc = "chat"
    /\ ci < Len(chats)
    /\ \E fail \in BOOLEAN, first \in HandlesFirst(chats[ci + 1]) :
          LET chat_info == chats[ci + 1]
              msgs == get_messages_for_chat(chat_info.chat_identifier)
              g == [Queried(ghost) EXCEPT !.fetched = @ + 1,
                                           !.item_failed = @ \/ fail]
              folder == contact_folder_path(chat_info, first)
          IN /\ fail => faults < MaxFaults
             /\ faults' = IF fail THEN faults + 1 ELSE faults
             /\ ci' = ci + 1
             /\ IF fail
                THEN /\ Return("False", [g EXCEPT !.raised = "sqlite3.Error"])
                     /\ UNCHANGED << messages, stats, contact_folder, dirs,
                                     messages_content, mi >>
                ELSE /\ messages' = msgs
                     /\ ghost' = g
                     /\ UNCHANGED << result, conn >>
                     /\ IF msgs = << >>
                        THEN /\ pc' = "chat"
                             /\ UNCHANGED << stats, contact_folder, dirs,
                                             messages_content, mi >>
                        ELSE /\ stats' = Inc(Inc(stats, "conversations"),
                                             "contacts_processed")
                             /\ contact_folder' = folder
                             /\ dirs' = create_contact_folder_dirs(dirs, folder)
                             /\ messages_content' =
                                   Append(messages_content,
                                          Line("header", NoTime, << >>,
                                               header_text(chat_info, first), ci + 1,
                                               << >>))
                             /\ mi' = 0
                             /\ pc' = "msg"
    /\ UNCHANGED << san, store, files, RESUME_MODE, DRY_RUN, run, chats, attachments,
                    ai, exit_code, outcomes, start, hist >>

\* the chat loop with the "if not messages: continue" forgotten
NextChat_no_skip ==
    /\ pc = "chat"
    /\ ci < Len(chats)
    /\ \E fail \in BOOLEAN, first \in HandlesFirst(chats[ci + 1]) :
          LET chat_info == chats[ci + 1]
              msgs == IF fail THEN << >>
                      ELSE get_messages_for_chat(chat_info.chat_identifier)
              g == [Queried(ghost) EXCEPT !.fetched = @ + 1,
                                           !.item_failed = @ \/ fail]
              folder == contact_folder_path(chat_info, first)
          IN /\ fail => faults < MaxFaults
             /\ faults' = IF fail THEN faults + 1 ELSE faults
             /\ ci' = ci + 1
             /\ messages' = msgs
             /\ ghost' = g
             /\ stats' = Inc(Inc(stats, "conversations"), "contacts_processed")
             /\ contact_folder' = folder
             /\ dirs' = create_contact_folder_dirs(dirs, folder)
             /\ messages_content' =
                   Append(messages_content,
                          Line("header", NoTime, << >>,
                               header_text(chat_info, first), ci + 1, << >>))
             /\ mi' = 0
             /\ pc' = "msg"
    /\ UNCHANGED << san, store, files, RESUME_MODE, DRY_RUN, run, conn, chats, attachments,
                    ai, result, exit_code, outcomes, start, hist >>

\* one iteration of "for chat_id, chat_info in chats.items()" up to the header
NextChat ==
    /\ pc = "chat"
    /\ ci < Len(chats)
    /\ \E fail \in BOOLEAN, first \in HandlesFirst(chats[ci + 1]) :
          LET chat_info == chats[ci + 1]
              msgs == IF fail THEN << >>
                      ELSE get_messages_for_chat(chat_info.chat_identifier)
              g == [Queried(ghost) EXCEPT !.fetched = @ + 1,
                                           !.item_failed = @ \/ fail]
              folder == contact_folder_path(chat_info, first)
          IN /\ fail => faults < MaxFaults
             /\ faults' = IF fail THEN faults + 1 ELSE faults
             /\ ci' = ci + 1
             /\ messages' = msgs
             /\ ghost' = g
             /\ IF msgs = << >>
                THEN /\ pc' = "chat"
                     /\ UNCHANGED << stats, contact_folder, dirs, messages_content, mi >>
                ELSE /\ stats' = Inc(Inc(stats, "conversations"), "contacts_processed")
                     /\ contact_folder' = folder
                     /\ dirs' = create_contact_folder_dirs(dirs, folder)
                     /\ messages_content' =
                           Append(messages_content,
                                  Line("header", NoTime, << >>,
                                       header_text(chat_info, first), ci + 1, << >>))
                     /\ mi' = 0
                     /\ pc' = "msg"
    /\ UNCHANGED << san, store, files, RESUME_MODE, DRY_RUN, run, conn, chats, attachments,
                    ai, result, exit_code, outcomes, start, hist >>

\* the message loop walking the list from its end
message_at_reversed(msgs, k) == msgs[Len(msgs) + 1 - k]

\* "for msg_idx, (...) in enumerate(messages)": the k-th message of the loop
message_at(msgs, k) == msgs[k]

\* one iteration of the message loop up to the attachment loop
NextMessage ==
    /\ pc = "msg"
    /\ mi < Len(messages)
    /\ \E fail \in BOOLEAN :
          LET msg == message_at(messages, mi + 1)
              atts == IF fail THEN << >> ELSE get_attachments_for_message(msg.message_id)
          IN /\ fail => faults < MaxFaults
             /\ faults' = IF fail THEN faults + 1 ELSE faults
             /\ mi' = mi + 1
             /\ stats' = Inc(stats, "messages")
             /\ attachments' = atts
             /\ ghost' = [Queried(ghost) EXCEPT !.item_failed = @ \/ fail]
             /\ messages_content' =
                   IF msg.text /= NULL /\ NonBlank(msg.text)
                   THEN Append(messages_content,
                               Line("text", format_timestamp(msg.date),
                                    sender_label(chats[ci], msg), msg.text, ci,
                                    msg.message_id))
                   ELSE messages_content
             /\ ai' = 0
             /\ pc' = IF atts = << >> THEN "msg" ELSE "att"
    /\ UNCHANGED << san, store, files, dirs, RESUME_MODE, DRY_RUN, run, conn, chats, ci,
                    messages, contact_folder, result, exit_code, outcomes, start, hist >>

\* the end of the message loop writing the transcript after every conversation
EndChat_writes_transcript ==
    /\ pc = "msg"
    /\ mi = Len(messages)
    /\ messages_content' = Append(messages_content,
                                  Line("blank", NoTime, << >>, << >>, ci, << >>))
    /\ files' = write_transcript(files, messages_content')
    /\ pc' = "chat"
    /\ UNCHANGED << san, store, dirs, RESUME_MODE, DRY_RUN, run, conn, chats, ci,
                    messages, mi, attachments, ai, contact_folder, stats, result,
                    exit_code, faults, outcomes, ghost, start, hist >>

\* the end of the message loop: the empty line between conversations
EndChat ==
    /\ pc = "msg"
    /\ mi = Len(messages)
    /\ messages_content' = Append(messages_content,
                                  Line("blank", NoTime, << >>, << >>, ci, << >>))
    /\ pc' = "chat"
    /\ UNCHANGED << san, store, files, dirs, RESUME_MODE, DRY_RUN, run, conn, chats, ci,
                    messages, mi, attachments, ai, contact_folder, stats, result,
                    exit_code, faults, outcomes, ghost, start, hist >>

\* one iteration of "for attachment in attachments"
NextAttachment ==
    /\ pc = "att"
    /\ ai < Len(attachments)
    /\ \E io \in { "ok", "error", "torn" } :
          LET attachment == attachments[ai + 1]
              msg == message_at(messages, mi)
              r == copy_attachment(attachment, contact_folder, files, dirs, io)
              found == Inc(stats, "attachments_found")
              st1 == [found EXCEPT !.attachments_skipped = @ + r.skipped]
              st2 == IF r.success
                     THEN IF counts_as_copied(r.result, attachments, st1)
                          THEN Inc(st1, "attachments_copied")
                          ELSE st1
                     ELSE Inc(st1, "attachments_failed")
              line == IF r.success
                      THEN Line("Attachment", format_timestamp(msg.date),
                                sender_label(chats[ci], msg), r.result, ci, msg.message_id)
                      ELSE Line("Missing Attachment", format_timestamp(msg.date),
                                sender_label(chats[ci], msg),
                                IF attachment.filename /= NULL
                                THEN basename(attachment.filename) ELSE S_unknown,
                                ci, msg.message_id)
          IN /\ io /= "ok" => /\ faults < MaxFaults
                              /\ ReachesCopy(attachment, contact_folder, files, dirs)
             /\ faults' = IF io /= "ok" THEN faults + 1 ELSE faults
             /\ files' = r.files
             /\ stats' = st2
             /\ messages_content' = Append(messages_content, line)
             /\ outcomes' = Append(outcomes,
                                   [attachment |-> attachment, outcome |-> r.outcome,
                                    reason |-> IF r.success THEN << >> ELSE r.result,
                                    dest |-> r.dest, chat |-> ci, mid |-> msg.message_id])
             /\ ghost' = [ghost EXCEPT !.item_failed = @ \/ ~r.success]
             /\ ai' = ai + 1
             /\ pc' = IF ai + 1 = Len(attachments) THEN "msg" ELSE "att"
    /\ UNCHANGED << san, store, dirs, RESUME_MODE, DRY_RUN, run, conn, chats, ci, messages,
                    mi, attachments, contact_folder, result, exit_code, start, hist >>

\* after the chat loop: the transcript, print_summary, the return and the finally
Finalize ==
    /\ pc = "chat"
    /\ ci = Len(chats)
    /\ LET written == IF ~DRY_RUN THEN write_transcript(files, messages_content)
                      ELSE files
           g == [ghost EXCEPT !.wrote_transcript = IF ~DRY_RUN THEN @ + 1 ELSE @]
       IN IF print_summary_raises(stats)
          THEN /\ files' = written
               /\ Return("False", [g EXCEPT !.raised = "KeyError"])
          ELSE /\ files' = print_summary_files(stats, written)
               /\ Return("True", g)
    /\ UNCHANGED << san, store, dirs, RESUME_MODE, DRY_RUN, run, chats, ci, messages, mi,
                    attachments, ai, contact_folder, stats, messages_content,
                    exit_code, faults, outcomes, start, hist >>

\* main returning 0 whatever export_conversations returned
ReturnToMain_always_zero ==
    /\ pc = "return"
    /\ exit_code' = 0
    /\ hist' = Append(hist, FinishedRun(FALSE))
    /\ pc' = "done"
    /\ UNCHANGED << san, store, files, dirs, RESUME_MODE, DRY_RUN, run, conn, chats, ci,
                    messages, mi, attachments, ai, contact_folder, stats,
                    messages_content, result, faults, outcomes, ghost, start >>

\* main after export_conversations returned: the exit code
ReturnToMain ==
    /\ pc = "return"
    /\ exit_code' = IF result = "True" THEN 0 ELSE 1
    /\ hist' = Append(hist, FinishedRun(FALSE))
    /\ pc' = "done"
    /\ UNCHANGED << san, store, files, dirs, RESUME_MODE, DRY_RUN, run, conn, chats, ci,
                    messages, mi, attachments, ai, contact_folder, stats,
                    messages_content, result, faults, outcomes, ghost, start >>

\* what a dead process leaves behind: nothing but the filesystem
Dead ==
    /\ pc' = "done"
    /\ hist' = Append(hist, FinishedRun(TRUE))
    /\ conn' = "none"
    /\ chats' = << >>
    /\ ci' = 0
    /\ messages' = << >>
    /\ mi' = 0
    /\ attachments' = << >>
    /\ ai' = 0
    /\ contact_folder' = << >>
    /\ stats' = InitStats
    /\ messages_content' = << >>
    /\ result' = "none"
    /\ exit_code' = -1
    /\ outcomes' = << >>
    /\ ghost' = [InitGhost EXCEPT !.killed = TRUE]
    /\ UNCHANGED << san, store, dirs, RESUME_MODE, DRY_RUN, run, faults, start >>

\* the process is killed between two steps
Kill ==
    /\ pc \in { "connect", "list", "chat", "msg", "att", "return" }
    /\ files' = files
    /\ Dead

\* the process is killed while shutil.copy2 is writing the destination file
KillDuringCopy ==
    /\ pc = "att"
    /\ ai < Len(attachments)
    /\ ReachesCopy(attachments[ai + 1], contact_folder, files, dirs)
    /\ files' = copy_attachment(attachments[ai + 1], contact_folder, files, dirs,
                                "torn").files
    /\ Dead

\* the script is started again on the same store and output directory
StartRun ==
    /\ pc = "done"
    /\ run < MaxRuns
    /\ run' = run + 1
    /\ DRY_RUN' \in BOOLEAN
    /\ pc' = "main"
    /\ conn' = "none"
    /\ chats' = << >>
    /\ ci' = 0
    /\ messages' = << >>
    /\ mi' = 0
    /\ attachments' = << >>
    /\ ai' = 0
    /\ contact_folder' = << >>
    /\ stats' = InitStats
    /\ messages_content' = << >>
    /\ result' = "none"
    /\ exit_code' = -1
    /\ outcomes' = << >>
    /\ ghost' = InitGhost
    /\ start' = [files |-> files, dirs |-> dirs]
    /\ UNCHANGED << san, store, files, dirs, RESUME_MODE, faults, hist >>

Next ==
    \/ Main
    \/ ConnectToDatabase
    \/ ListChats
    \/ NextChat
    \/ NextMessage
    \/ EndChat
    \/ NextAttachment
    \/ Finalize
    \/ ReturnToMain
    \/ Kill
    \/ KillDuringCopy
    \/ StartRun

Spec == Init /\ [][Next]_vars

(***************************************************************************)
(* Vocabulary of the properties.                                           *)
(***************************************************************************)
StoreAttachments ==
    UNION { UNION { { store[i].messages[j].attachments[k] :
                        k \in 1..Len(store[i].messages[j].attachments) } :
                    j \in 1..Len(store[i].messages) } : i \in 1..Len(store) }

\* every attachment has a recorded path whose file exists
AllSourcesPresent ==
    \A a \in StoreAttachments : a.filename /= NULL /\ expanduser(a.filename) \in SourceFiles

\* the number of attachment rows of the store
RECURSIVE CountRows(_)
CountRows(msgs) ==
    IF msgs = << >> THEN 0 ELSE Len(Head(msgs).attachments) + CountRows(Tail(msgs))

RECURSIVE CountStoreRows(_)
CountStoreRows(st) ==
    IF st = << >> THEN 0 ELSE CountRows(Head(st).messages) + CountStoreRows(Tail(st))

\* no two attachment rows derive the same destination filename
DistinctNames ==
    /\ Cardinality(StoreAttachments) = CountStoreRows(store)
    /\ \A a \in StoreAttachments : \A b \in StoreAttachments :
          (a.filename /= NULL /\ b.filename /= NULL
           /\ dest_filename_of(a) = dest_filename_of(b)) => a = b

\* every conversation has at most one handle, so its folder is the same in every run
StableFolders == \A i \in 1..Len(store) : Cardinality(store[i].head.handles) <= 1

\* a finished run that went through the conversation loop
RanLoop(h) == ~h.killed /\ h.ghost.listed > 0 /\ h.ghost.raised /= "sqlite3.Error"

TwoRunsDone == pc = "done" /\ Len(hist) = 2 /\ RanLoop(hist[1]) /\ RanLoop(hist[2])

OutcomeKinds(h) == [i \in 1..Len(h.outcomes) |-> h.outcomes[i].outcome]

\* the filesystem but for the debug log and the export root that holds it
SameButLog(fs, ds, fs0, ds0) ==
    /\ ds \ { OUTPUT_DIR } = ds0 \ { OUTPUT_DIR }
    /\ DOMAIN fs \ { LogPath } = DOMAIN fs0 \ { LogPath }
    /\ \A q \in DOMAIN fs \ { LogPath } : fs[q] = fs0[q]

(***************************************************************************)
(* C1: two runs with resumeMode on the same input, the destination empty   *)
(* before the first and every source file present: the first run resolves  *)
(* every attachment as Copied, the second resolves every one as            *)
(* SkippedExisting, copies nothing and leaves attachments_copied at 0.     *)
(***************************************************************************)
C1_ResumeIdempotent ==
    ( /\ TwoRunsDone
      /\ RESUME_MODE
      /\ ~hist[1].dry /\ ~hist[2].dry
      /\ faults = 0
      /\ AllSourcesPresent /\ DistinctNames /\ StableFolders )
    => /\ \A i \in 1..Len(hist[1].outcomes) :
             hist[1].outcomes[i].outcome = "Copied"
       /\ \A i \in 1..Len(hist[2].outcomes) :
             hist[2].outcomes[i].outcome = "SkippedExisting"
       /\ hist[2].stats.attachments_skipped = Len(hist[2].outcomes)
       /\ hist[2].stats.attachments_copied = 0

(***************************************************************************)
(* C2: a run with resumeMode is killed at any point and the pipeline is    *)
(* run again with resumeMode: when the second run finishes, every          *)
(* attachment whose source file exists has a complete copy of its source   *)
(* at its destination.                                                     *)
(***************************************************************************)
C2_RerunAfterKill ==
    ( /\ pc = "done" /\ Len(hist) = 2
      /\ hist[1].killed /\ RanLoop(hist[2])
      /\ RESUME_MODE
      /\ ~hist[1].dry /\ ~hist[2].dry
      /\ faults = 0
      /\ DistinctNames /\ StableFolders )
    => \A i \in 1..Len(outcomes) :
          LET a == outcomes[i].attachment
          IN (a.filename /= NULL /\ expanduser(a.filename) \in SourceFiles)
             => /\ outcomes[i].dest \in DOMAIN files
                /\ files[outcomes[i].dest] = files[expanduser(a.filename)]

(***************************************************************************)
(* C3: an attachment whose derived filename ends in a recognized payload   *)
(* suffix resolves as PluginPayload, never Failed, and is not counted in   *)
(* attachments_failed.                                                     *)
(***************************************************************************)
C3_PluginNeverFailed ==
    /\ \A i \in 1..Len(outcomes) :
          ( /\ outcomes[i].attachment.filename /= NULL
            /\ is_plugin_attachment(dest_filename_of(outcomes[i].attachment)) )
          => outcomes[i].outcome = "PluginPayload"
    /\ stats.attachments_failed <=
          Cardinality({ i \in 1..Len(outcomes) :
                          ~( /\ outcomes[i].attachment.filename /= NULL
                             /\ is_plugin_attachment(dest_filename_of(outcomes[i].attachment)) ) })

(***************************************************************************)
(* C4: a dry run leaves the filesystem as it was when the run started      *)
(* (the claim as stated: nothing at all is created or modified).           *)
(***************************************************************************)
C4_DryRunTouchesNothing ==
    DRY_RUN => (files = start.files /\ dirs = start.dirs)

(***************************************************************************)
(* C4, amended: a dry run creates or modifies nothing but the export root  *)
(* directory and the debug log export_debug.log, which setup_logging       *)
(* creates even in a dry run: no attachments directory, conversation       *)
(* folder, transcript, failure report or attachment file, at any point     *)
(* of the run and for every way the run ends.                              *)
(***************************************************************************)
C4_DryRunOnlyLog ==
    DRY_RUN => SameButLog(files, dirs, start.files, start.dirs)

C4_Witness ==
    /\ DRY_RUN /\ pc = "done" /\ ~ghost.killed
    /\ stats.attachments_copied > 0
    /\ stats.conversations > 0
    /\ LogPath \in DOMAIN files

(***************************************************************************)
(* C5: on the same input and the same initial destination, a dry run and   *)
(* a real run end with the same statistics and the same per-attachment     *)
(* outcomes.                                                               *)
(***************************************************************************)
C5_DryRunSameCounts ==
    ( /\ TwoRunsDone
      /\ hist[1].dry /\ ~hist[2].dry
      /\ faults = 0 )
    => /\ hist[1].stats = hist[2].stats
       /\ OutcomeKinds(hist[1]) = OutcomeKinds(hist[2])

(***************************************************************************)
(* C6: a run in which the data source opens, at least one conversation is  *)
(* listed and no query or file operation raises ends Done:                 *)
(* export_conversations returns True and main returns 0.                   *)
(***************************************************************************)
C6_SuccessExitsZero ==
    ( /\ pc = "done" /\ ~ghost.killed
      /\ ghost.opens = 1
      /\ ghost.listed > 0
      /\ ghost.raised /= "sqlite3.Error" )
    => (result = "True" /\ exit_code = 0)

(***************************************************************************)
(* C7: the message and attachment lines of a conversation stand in the     *)
(* transcript in the order in which the reader returned the messages       *)
(* (non-decreasing timestamp), a message's text line before its            *)
(* attachment lines, conversations in enumeration order; and when no       *)
(* query failed, a finished run has one text line per non-blank message    *)
(* and one line per attachment: nothing reordered, dropped or duplicated.  *)
(***************************************************************************)
MessageKinds == { "text", "Attachment", "Missing Attachment" }

ReaderOrder(c) == get_messages_for_chat(chats[c].chat_identifier)

PosOf(line) ==
    CHOOSE k \in 1..Len(ReaderOrder(line.chat)) :
        ReaderOrder(line.chat)[k].message_id = line.mid

LinesOf(c, mid, kinds) ==
    { i \in 1..Len(messages_content) :
        /\ messages_content[i].chat = c
        /\ messages_content[i].mid = mid
        /\ messages_content[i].kind \in kinds }

C7_TranscriptOrder ==
    /\ \A i \in 1..Len(messages_content) : \A j \in 1..Len(messages_content) :
          i < j =>
            /\ messages_content[i].chat <= messages_content[j].chat
            /\ ( /\ messages_content[i].chat = messages_content[j].chat
                 /\ messages_content[i].kind \in MessageKinds
                 /\ messages_content[j].kind \in MessageKinds )
               => /\ PosOf(messages_content[i]) <= PosOf(messages_content[j])
                  /\ PosOf(messages_content[i]) = PosOf(messages_content[j])
                        => messages_content[j].kind /= "text"
                  /\ messages_content[i].ts.secs <= messages_content[j].ts.secs
    /\ (pc = "done" /\ ~ghost.killed /\ ghost.listed > 0 /\ faults = 0)
       => \A c \in 1..Len(chats) : \A k \in 1..Len(ReaderOrder(c)) :
             LET m == ReaderOrder(c)[k]
             IN /\ Cardinality(LinesOf(c, m.message_id, { "text" }))
                      = IF NonBlank(m.text) THEN 1 ELSE 0
                /\ Cardinality(LinesOf(c, m.message_id,
                                       { "Attachment", "Missing Attachment" }))
                      = Len(m.attachments)

\* the reader returned the second row before the first, and the transcript
\* follows the reader
C7_Witness ==
    /\ pc = "done" /\ ~ghost.killed
    /\ \E i \in 1..Len(messages_content) : \E j \in 1..Len(messages_content) :
          /\ i < j
          /\ messages_content[i].chat = messages_content[j].chat
          /\ messages_content[i].kind = "Attachment"
          /\ messages_content[j].kind = "text"
          /\ messages_content[i].mid /= << >> /\ messages_content[j].mid /= << >>
          /\ messages_content[i].mid[2] > messages_content[j].mid[2]

(***************************************************************************)
(* C8: the connection is opened at most once in a run and, once opened,    *)
(* closed exactly once by the time export_conversations has returned, on   *)
(* the normal path, the empty-list return and the exception path alike;    *)
(* every query is issued on the open connection.                           *)
(***************************************************************************)
C8_ConnectionScoped ==
    /\ ghost.opens <= 1
    /\ ghost.closes <= ghost.opens
    /\ ~ghost.query_unopened
    /\ conn = "open" => (ghost.opens = 1 /\ ghost.closes = 0
                         /\ pc \in { "list", "chat", "msg", "att" })
    /\ (pc \in { "return", "done" } /\ ~ghost.killed)
       => (ghost.closes = ghost.opens /\ conn /= "open")

\* a run that left through the except clause, the connection closed once
C8_Witness ==
    /\ pc = "done" /\ ~ghost.killed
    /\ ghost.raised = "sqlite3.Error"
    /\ ghost.opens = 1 /\ ghost.closes = 1 /\ conn = "closed"

(***************************************************************************)
(* C9: when the data source cannot be opened or the conversation list is   *)
(* empty, the run ends with exit code 1 and without an exception, and it   *)
(* has processed no conversation, incremented no counter and written no    *)
(* conversation folder, attachment or transcript.                          *)
(***************************************************************************)
C9_FatalDoesNothing ==
    (pc = "done" /\ ~ghost.killed /\ (ghost.connect_failed \/ ghost.listed = 0))
    => /\ exit_code = 1
       /\ result = "False"
       /\ ghost.raised = "none"
       /\ ghost.fetched = 0
       /\ stats = InitStats
       /\ outcomes = << >>
       /\ ghost.wrote_transcript = 0
       /\ SameButLog(files, dirs, start.files, start.dirs)

\* an empty conversation list in a real run over a destination that an earlier
\* run has filled
C9_Witness ==
    /\ pc = "done" /\ ~ghost.killed
    /\ ghost.listed = 0 /\ ghost.opens = 1
    /\ ~DRY_RUN
    /\ exit_code = 1

(***************************************************************************)
(* C10: a run in which a message query, an attachment query or the         *)
(* resolution of an attachment failed still fetches every conversation     *)
(* of the list and, unless it is a dry run, writes the transcript with     *)
(* everything accumulated.                                                 *)
(***************************************************************************)
C10_ItemFailureContained ==
    (pc = "done" /\ ~ghost.killed /\ ghost.item_failed)
    => /\ ghost.fetched = Len(chats)
       /\ ghost.raised /= "sqlite3.Error"
       /\ ~DRY_RUN => /\ ghost.wrote_transcript = 1
                      /\ TranscriptPath \in DOMAIN files
                      /\ files[TranscriptPath].lines = messages_content

\* the message query of the first of two conversations failed, the second was
\* exported and the transcript written
C10_Witness ==
    /\ pc = "done" /\ ~ghost.killed
    /\ ghost.item_failed /\ faults > 0
    /\ Len(chats) = 2 /\ ghost.fetched = 2
    /\ stats.conversations = 1
    /\ \E i \in 1..Len(messages_content) : messages_content[i].chat = 2
    /\ ~DRY_RUN /\ ghost.wrote_transcript = 1

(***************************************************************************)
(* Vocabulary of the properties about one finished run.                    *)
(***************************************************************************)
\* the run went through the conversation loop and the transcript step
ReachedFinalizing ==
    /\ pc = "done" /\ ~ghost.killed
    /\ ghost.listed > 0
    /\ ghost.raised /= "sqlite3.Error"

FailedOutcomes == SelectSeq(outcomes, LAMBDA o : o.outcome = "Failed")

ReportUntouched ==
    /\ (ReportPath \in DOMAIN files) = (ReportPath \in DOMAIN start.files)
    /\ ReportPath \in DOMAIN files => files[ReportPath] = start.files[ReportPath]

(***************************************************************************)
(* C11: in a real run that reaches the final step, failed_attachments.txt  *)
(* is written if and only if at least one attachment resolved as Failed,   *)
(* and then holds one entry per failed attachment (as many as              *)
(* attachments_failed); a dry run never writes it.                         *)
(***************************************************************************)
C11_FailureReport ==
    ReachedFinalizing
    => IF ~DRY_RUN /\ FailedOutcomes /= << >>
       THEN /\ ReportPath \in DOMAIN files
            /\ files[ReportPath].kind = "report"
            /\ Len(files[ReportPath].lines) = Len(FailedOutcomes)
            /\ Len(files[ReportPath].lines) = stats.attachments_failed
       ELSE ReportUntouched

(***************************************************************************)
(* C12: between two attachment resolutions every attachment found so far   *)
(* is counted in exactly one outcome counter: attachments_found =           *)
(* attachments_copied + attachments_skipped + attachments_failed (the code  *)
(* keeps no plugin counter), and attachments_skipped counts exactly the     *)
(* attachments resolved as SkippedExisting, attachments_copied exactly the  *)
(* ones resolved as Copied.                                                 *)
(***************************************************************************)
CountOutcome(kind) ==
    Cardinality({ i \in 1..Len(outcomes) : outcomes[i].outcome = kind })

C12_OneCounterEach ==
    ~ghost.killed
    => /\ stats.attachments_found = stats.attachments_copied
                                    + stats.attachments_skipped
                                    + stats.attachments_failed
       /\ stats.attachments_skipped = CountOutcome("SkippedExisting")
       /\ stats.attachments_copied = CountOutcome("Copied")

(***************************************************************************)
(* C13: an attachment is failed for want of a filename only when it has    *)
(* neither a recorded path nor a transfer name; with no recorded path but  *)
(* a transfer name it is not failed at that step and its destination       *)
(* filename is the transfer name.                                          *)
(***************************************************************************)
S_No_filename_provided == <<"No filename provided">>

C13_TransferNameFallback ==
    \A i \in 1..Len(outcomes) :
        LET a == outcomes[i].attachment
        IN /\ outcomes[i].reason = S_No_filename_provided
              => (a.filename = NULL /\ a.transfer_name = NULL)
           /\ (a.filename = NULL /\ a.transfer_name /= NULL)
              => outcomes[i].dest = PathJoin(contact_folder, a.transfer_name)

(***************************************************************************)
(* C14: with the search of alternate locations enabled, an attachment      *)
(* whose recorded path does not exist is failed as "source not found"      *)
(* only if no alternate location holds a file of the same basename; the    *)
(* first location that holds one is used instead.                          *)
(***************************************************************************)
S_Source_file_not_found == <<"Source file not found">>

\* the alternate known storage locations, in probing order
AlternateLocations == << ATTACHMENTS_PATH >>

HeldByAlternate(filename) ==
    \E k \in 1..Len(AlternateLocations) :
        PathJoin(AlternateLocations[k], basename(filename)) \in DOMAIN files

C14_AlternateSearch ==
    SEARCH_ALTERNATIVE_LOCATIONS
    => \A i \in 1..Len(outcomes) :
          ( /\ outcomes[i].outcome = "Failed"
            /\ outcomes[i].reason = S_Source_file_not_found )
          => ~HeldByAlternate(outcomes[i].attachment.filename)

(***************************************************************************)
(* C15: with resume mode on, an attachment whose destination file already  *)
(* exists resolves as SkippedExisting, a success with the transcript line  *)
(* [Attachment: name], whether or not its source file exists; the          *)
(* filesystem, the existing destination file included, is left as it was.  *)
(***************************************************************************)
C15_ResumeSkipsExisting ==
    [][ (pc = "att" /\ Len(outcomes') = Len(outcomes) + 1)
        => LET a == attachments[ai + 1]
               dest_path == PathJoin(contact_folder, dest_filename_of(a))
               o == outcomes'[Len(outcomes')]
               line == messages_content'[Len(messages_content')]
           IN (RESUME_MODE /\ a.filename /= NULL /\ Exists(files, dirs, dest_path))
              => /\ o.outcome = "SkippedExisting"
                 /\ o.dest = dest_path
                 /\ files' = files /\ dirs' = dirs
                 /\ Len(messages_content') = Len(messages_content) + 1
                 /\ line.kind = "Attachment"
                 /\ line.text = dest_filename_of(a)
                 /\ stats'.attachments_skipped = stats.attachments_skipped + 1
                 /\ stats'.attachments_failed = stats.attachments_failed ]_vars

\* an attachment whose source file is absent was skipped over the copy that an
\* attachment of the same name left at the destination
C15_Witness ==
    /\ RESUME_MODE
    /\ \E i \in 1..Len(outcomes) :
          /\ outcomes[i].outcome = "SkippedExisting"
          /\ ~Exists(files, dirs, expanduser(outcomes[i].attachment.filename))
          /\ outcomes[i].dest \in DOMAIN files
          /\ files[outcomes[i].dest] = Data(P_AX)
          /\ messages_content[Len(messages_content)].kind = "Attachment"

(***************************************************************************)
(* C16: a conversation whose message query returns no message is skipped:  *)
(* it is not counted in conversations, no folder is made for it and the    *)
(* transcript has no line of it, header and separator included; every      *)
(* conversation with at least one message has exactly one header, as its   *)
(* first line, and exactly one blank line, as its last.                    *)
(***************************************************************************)
ChatLines(c) == { i \in 1..Len(messages_content) : messages_content[i].chat = c }

KindLines(c, kind) == { i \in ChatLines(c) : messages_content[i].kind = kind }

\* the conversations that have a header in the transcript
Exported == { c \in 1..Len(chats) : KindLines(c, "header") /= {} }

FoldersOf(cs) ==
    UNION { { contact_folder_path(chats[c], f) : f \in HandlesFirst(chats[c]) } : c \in cs }

C16_EmptyChatSkipped ==
    /\ ~ghost.killed
       => \A c \in 1..Len(chats) :
             ReaderOrder(c) = << >> => ChatLines(c) = {}
    /\ ReachedFinalizing
       => /\ stats.conversations = Cardinality(Exported)
          /\ dirs \ start.dirs \subseteq { OUTPUT_DIR, AttachmentsDir } \cup FoldersOf(Exported)
          /\ \A c \in 1..Len(chats) :
                IF c \in Exported
                THEN /\ ReaderOrder(c) /= << >>
                     /\ Cardinality(KindLines(c, "header")) = 1
                     /\ Cardinality(KindLines(c, "blank")) = 1
                     /\ \A i \in ChatLines(c) :
                           /\ \A h \in KindLines(c, "header") : h <= i
                           /\ \A b \in KindLines(c, "blank") : i <= b
                ELSE /\ ChatLines(c) = {}
                     /\ faults = 0 => ReaderOrder(c) = << >>

\* the first of two conversations has no message, the second was exported
C16_Witness ==
    /\ ReachedFinalizing /\ ~DRY_RUN /\ faults = 0
    /\ Len(chats) = 2
    /\ ReaderOrder(1) = << >>
    /\ Exported = { 2 }
    /\ stats.conversations = 1
    /\ contact_folder_path(chats[2], CHOOSE f \in HandlesFirst(chats[2]) : TRUE) \in dirs

(***************************************************************************)
(* The contact lookup, an external collaborator: the address book of the   *)
(* machine resolves a handle or a conversation identity to a name, or to   *)
(* nothing.                                                                *)
(***************************************************************************)
Contacts == ( <<"+","1">> :> <<"B","o">> )

resolveContactName(handleOrIdentity) ==
    IF handleOrIdentity \in DOMAIN Contacts THEN Contacts[handleOrIdentity] ELSE NULL

Header(name) == S_header_pre \o name \o S_header_post

WithHandle(name, handle) == name \o S_open \o handle \o S_close

(***************************************************************************)
(* C17: the header of a conversation follows the first rule that applies:  *)
(* the contact name of a participant handle with that handle; the contact  *)
(* name of the conversation identity; the store display name with the      *)
(* first handle; the store display name alone; the first handle alone;     *)
(* the raw conversation identity.                                          *)
(***************************************************************************)
ExpectedHeaders(chat_info) ==
    LET named == { h \in chat_info.handles : resolveContactName(h) /= NULL }
        id == chat_info.chat_identifier
        display_name == chat_info.display_name
    IN IF named /= {}
       THEN { Header(WithHandle(resolveContactName(h), h)) : h \in named }
       ELSE IF resolveContactName(id) /= NULL
       THEN { Header(resolveContactName(id)),
              Header(WithHandle(resolveContactName(id), id)) }
       ELSE IF display_name /= NULL /\ chat_info.handles /= {}
       THEN { Header(WithHandle(display_name, h)) : h \in chat_info.handles }
       ELSE IF display_name /= NULL THEN { Header(display_name) }
       ELSE IF chat_info.handles /= {} THEN { Header(h) : h \in chat_info.handles }
       ELSE { Header(id) }

C17_HeaderPrecedence ==
    \A i \in 1..Len(messages_content) :
        messages_content[i].kind = "header"
        => messages_content[i].text \in ExpectedHeaders(chats[messages_content[i].chat])

(***************************************************************************)
(* C18: the sender label of a message is "You" when the message is from    *)
(* self; otherwise the contact name of the sender handle if there is one;  *)
(* otherwise the conversation display name; otherwise the raw sender       *)
(* handle; otherwise "Unknown".                                            *)
(***************************************************************************)
ExpectedSender(chat_info, msg) ==
    IF msg.is_from_me THEN S_You
    ELSE IF msg.sender_handle /= NULL /\ resolveContactName(msg.sender_handle) /= NULL
    THEN resolveContactName(msg.sender_handle)
    ELSE IF chat_info.display_name /= NULL THEN chat_info.display_name
    ELSE IF msg.sender_handle /= NULL THEN msg.sender_handle
    ELSE S_Unknown

C18_SenderPrecedence ==
    \A i \in 1..Len(messages_content) :
        messages_content[i].kind \in MessageKinds
        => messages_content[i].sender =
              ExpectedSender(chats[messages_content[i].chat],
                             ReaderOrder(messages_content[i].chat)[PosOf(messages_content[i])])

(***************************************************************************)
(* C19: each resolved attachment has exactly one transcript line, after    *)
(* the text line of its message, and the line follows from the outcome:    *)
(* [Attachment: name] for Copied and SkippedExisting, [App Data: label]    *)
(* for a plugin payload (an attachment whose derived filename has a        *)
(* payload suffix), [Missing Attachment: basename or "unknown"] for        *)
(* Failed, which adds exactly one to attachments_failed.                   *)
(***************************************************************************)
AttachmentKinds == { "Attachment", "App Data", "Missing Attachment" }

\* the index in the transcript of the line of the k-th resolved attachment
AttachmentLine(k) ==
    CHOOSE i \in 1..Len(messages_content) :
        /\ messages_content[i].kind \in AttachmentKinds
        /\ Cardinality({ j \in 1..i : messages_content[j].kind \in AttachmentKinds }) = k

IsPluginPayload(a) ==
    a.filename /= NULL /\ is_plugin_attachment(dest_filename_of(a))

C19_AttachmentLines ==
    ~ghost.killed
    => /\ Cardinality({ j \in 1..Len(messages_content) :
                          messages_content[j].kind \in AttachmentKinds }) = Len(outcomes)
       /\ stats.attachments_failed = CountOutcome("Failed")
       /\ \A k \in 1..Len(outcomes) :
             LET o == outcomes[k]
                 i == AttachmentLine(k)
                 line == messages_content[i]
             IN /\ line.chat = o.chat /\ line.mid = o.mid
                /\ \A t \in LinesOf(o.chat, o.mid, { "text" }) : t < i
                /\ IF IsPluginPayload(o.attachment)
                   THEN line.kind = "App Data"
                   ELSE IF o.outcome \in { "Copied", "SkippedExisting" }
                   THEN /\ line.kind = "Attachment"
                        /\ line.text = basename(o.dest)
                   ELSE /\ o.outcome = "Failed"
                        /\ line.kind = "Missing Attachment"
                        /\ line.text = IF o.attachment.filename /= NULL
                                       THEN basename(o.attachment.filename)
                                       ELSE S_unknown

(***************************************************************************)
(* C20: the transcript is written at most once in a run, in the final      *)
(* step after the last conversation and only in a real run; it holds the   *)
(* conversation blocks in the order in which the conversations were        *)
(* listed; until that step, and in a run that ends before it, no           *)
(* transcript is written.                                                  *)
(***************************************************************************)
TranscriptUntouched ==
    /\ (TranscriptPath \in DOMAIN files) = (TranscriptPath \in DOMAIN start.files)
    /\ TranscriptPath \in DOMAIN files => files[TranscriptPath] = start.files[TranscriptPath]

C20_TranscriptOnce ==
    ~ghost.killed
    => /\ ghost.wrote_transcript <= 1
       /\ ghost.wrote_transcript = 0 => TranscriptUntouched
       /\ ghost.wrote_transcript = 1
          => /\ ~DRY_RUN
             /\ pc \in { "return", "done" }
             /\ ghost.listed > 0 /\ ci = Len(chats) /\ ghost.fetched = Len(chats)
             /\ TranscriptPath \in DOMAIN files
             /\ files[TranscriptPath].kind = "transcript"
             /\ files[TranscriptPath].lines = messages_content
             /\ \A i \in 1..Len(messages_content) : \A j \in 1..Len(messages_content) :
                   i < j => messages_content[i].chat <= messages_content[j].chat
       /\ (pc \in { "return", "done" } /\ ghost.listed > 0
           /\ ghost.raised /= "sqlite3.Error" /\ ~DRY_RUN)
          => ghost.wrote_transcript = 1

\* a second real run over two conversations wrote the transcript anew
C20_Witness ==
    /\ pc = "done" /\ ~ghost.killed /\ ~DRY_RUN
    /\ run = 2
    /\ ghost.wrote_transcript = 1
    /\ Cardinality(Exported) = 2
    /\ files[TranscriptPath].lines = messages_content
    /\ TranscriptPath \in DOMAIN start.files

(***************************************************************************)
(* sanitize_filename on its own: the argument is any short string over a   *)
(* few characters, forbidden and stripped ones among them, behind a        *)
(* padding that brings it up to and over the length limit; the function    *)
(* is applied to it, then to its own result.                               *)
(***************************************************************************)
SanChars == { "a", " ", ".", "/", "*" }

Pad(n) == [i \in 1..n |-> "a"]

PadLens == { 0 } \cup { n \in 0..MaxNameLen : n >= MaxNameLen - MaxCore }

\* None and "" are both << >>
SanitizerInputs ==
    { p \o Pad(n) \o c : p \in SeqsUpTo(SanChars, 1), n \in PadLens,
                         c \in SeqsUpTo(SanChars, MaxCore) }

SanInit ==
    /\ san \in { [pc |-> "call", name |-> n, once |-> << >>, twice |-> << >>] :
                   n \in SanitizerInputs }
    /\ store = << >>
    /\ files = [q \in SourceFiles |-> Data(q)]
    /\ dirs = {}
    /\ RESUME_MODE = FALSE
    /\ DRY_RUN = FALSE
    /\ run = 1
    /\ pc = "done"
    /\ conn = "none"
    /\ chats = << >>
    /\ ci = 0
    /\ messages = << >>
    /\ mi = 0
    /\ attachments = << >>
    /\ ai = 0
    /\ contact_folder = << >>
    /\ stats = InitStats
    /\ messages_content = << >>
    /\ result = "none"
    /\ exit_code = -1
    /\ faults = 0
    /\ outcomes = << >>
    /\ ghost = InitGhost
    /\ start = [files |-> files, dirs |-> dirs]
    /\ hist = << >>

runvars == << store, files, dirs, RESUME_MODE, DRY_RUN, run, pc, conn, chats, ci,
              messages, mi, attachments, ai, contact_folder, stats, messages_content,
              result, exit_code, faults, outcomes, ghost, start, hist >>

\* folder_name = sanitize_filename(folder_name)
SanitizeName ==
    /\ san.pc = "call"
    /\ san' = [san EXCEPT !.pc = "once", !.once = sanitize_filename(san.name)]
    /\ UNCHANGED runvars

\* the result sanitized again
SanitizeAgain ==
    /\ san.pc = "once"
    /\ san' = [san EXCEPT !.pc = "twice", !.twice = sanitize_filename(san.once)]
    /\ UNCHANGED runvars

SanNext ==
    \/ SanitizeName
    \/ SanitizeAgain

SanSpec == SanInit /\ [][SanNext]_vars

HasProblematic(name) == \E i \in 1..Len(name) : name[i] \in problematic_chars

(***************************************************************************)
(* C21: for every argument, the empty string and None included,            *)
(* sanitize_filename returns a string with none of the characters          *)
(* : / \ < > " | ? * in it, at most 100 characters long and never empty.   *)
(***************************************************************************)
C21_SanitizeSafe ==
    /\ san.pc \in { "once", "twice" }
       => /\ ~HasProblematic(san.once)
          /\ Len(san.once) <= MaxNameLen
          /\ san.once /= << >>
    /\ san.pc = "twice"
       => /\ ~HasProblematic(san.twice)
          /\ Len(san.twice) <= MaxNameLen
          /\ san.twice /= << >>

\* an argument over the limit with a forbidden character in it came back cut
\* to the limit
C21_Witness ==
    /\ san.pc = "once"
    /\ Len(san.name) > MaxNameLen
    /\ HasProblematic(san.name)
    /\ Len(san.once) = MaxNameLen
    /\ \E i \in 1..Len(san.once) : san.once[i] = "_"

(***************************************************************************)
(* C22: at the end of a real run, every attachment that was reported as a  *)
(* success (Copied or SkippedExisting) has a destination file whose        *)
(* content is the content of its own source file, also when two            *)
(* attachments have different paths and the same basename or two           *)
(* conversations share a folder, with resume mode on or off.               *)
(***************************************************************************)
C22_OwnContent ==
    ( /\ pc = "done" /\ ~ghost.killed /\ ~DRY_RUN
      /\ run = 1 /\ faults = 0
      /\ AllSourcesPresent )
    => \A i \in 1..Len(outcomes) :
          outcomes[i].outcome \in { "Copied", "SkippedExisting" }
          => /\ outcomes[i].dest \in DOMAIN files
             /\ expanduser(outcomes[i].attachment.filename) \in DOMAIN files
             /\ files[outcomes[i].dest]
                   = files[expanduser(outcomes[i].attachment.filename)]

(***************************************************************************)
(* C23: the folder and the header of a conversation depend on the          *)
(* conversation record alone: two runs over the same store compute the     *)
(* same folder and the same header for every conversation, conversations   *)
(* with two or more handles included, so that the second run looks for     *)
(* the files where the first wrote them.                                   *)
(***************************************************************************)
\* os.path.dirname
dirname(p) == SubSeq(p, 1, LastSlash(p, Len(p)) - 1)

HeaderLines(lines) == { lines[i] : i \in { k \in 1..Len(lines) : lines[k].kind = "header" } }

C23_SameFolderEachRun ==
    (TwoRunsDone /\ faults = 0)
    => /\ \A i \in 1..Len(hist[1].outcomes) : \A j \in 1..Len(hist[2].outcomes) :
             ( /\ hist[1].outcomes[i].chat = hist[2].outcomes[j].chat
               /\ hist[1].outcomes[i].dest /= << >>
               /\ hist[2].outcomes[j].dest /= << >> )
             => dirname(hist[1].outcomes[i].dest) = dirname(hist[2].outcomes[j].dest)
       /\ (~hist[1].dry /\ TranscriptPath \in DOMAIN start.files)
          => \A h1 \in HeaderLines(start.files[TranscriptPath].lines) :
                \A h2 \in HeaderLines(messages_content) :
                   h1.chat = h2.chat => h1.text = h2.text

(***************************************************************************)
(* C24: what sanitize_filename returns neither begins nor ends with a      *)
(* space or a ".", also when the argument is longer than 100 characters    *)
(* and is truncated; and sanitize_filename is idempotent:                  *)
(* sanitize_filename(sanitize_filename(x)) = sanitize_filename(x).         *)
(***************************************************************************)
C24_SanitizeStripped ==
    /\ san.pc \in { "once", "twice" }
       => /\ san.once[1] \notin strip_chars
          /\ san.once[Len(san.once)] \notin strip_chars
    /\ san.pc = "twice" => san.twice = san.once

====
